---- MODULE Spec2Model ----
(***************************************************************************)
(* Channel multiplexer of the Sonic contact-center gateway.                *)
(*                                                                         *)
(* The websocket endpoint /socket attaches every connection to a channel   *)
(* (initializeOrJoinChannel), detaches it on the close event (handleClose),*)
(* and an interval timer closes idle engine sessions.  The repository      *)
(* holds two builds of the server: the Session build (channelStreams,      *)
(* part_000 lines 1-446, "v1") and the Conversation build                  *)
(* (channelConversations, part_000 lines 448-835, "v2").  The variable     *)
(* server says which build runs.                                           *)
(*                                                                         *)
(* A Conversation Handle is identified by the websocket whose join created *)
(* it.  Every await of the handlers is a separate step; the code between   *)
(* two awaits is one atomic step (single-threaded event loop).             *)
(***************************************************************************)
EXTENDS Integers, Sequences, FiniteSets, TLC

MaxClients == 2
MaxChannels == 2
fiveMinsInMs == 5 * 60 * 1000
sweepPeriodMs == 60000

WS == 1..MaxClients
ChannelIds == 1..MaxChannels
Builds == {"v1", "v2"}
MaxErrors == 1
Providers == {"browser", "vonage", "twilio"}
MaxEvents == 2
MaxFrames == 2
MaxSamples == 3
CHUNK_SIZE_BYTES == 640
SAMPLES_PER_CHUNK == CHUNK_SIZE_BYTES \div 2

VARIABLES
  server,               \* which build of the server runs
  readyState,           \* ws.readyState of each connection ("none" = not connected yet)
  wsChan,               \* conversationId of the /socket handler closure
  joinPc,               \* position of initializeOrJoinChannel
  closePc,              \* position of handleClose
  grace,                \* position of the graceful async sequence raced in handleClose
  graceH,               \* the handle (session) captured by that sequence
  ready,                \* sessionReady received by the client
  errors,               \* error events received by the client
  channelConversations, \* channelId -> handle
  channelClients,       \* channelId -> set of websockets
  clientChannels,       \* websocket -> channelId
  activeSessions,       \* engine: sessionId -> handle
  hState,               \* engine: lifecycle state of each handle
  hOps,                 \* how often the gateway issued each closing operation on each handle
  zeroReached,          \* times the client set of the current registry entry became empty
  lastReturned,         \* the connection whose handleClose returned in the last step, and which run of it that was
  integrations,         \* the adapters switched on at process start (browser.isOn, vonage.isOn, twilio.isOn)
  msgPc,                \* position of the handleMessage run of each connection
  sinceActivity,        \* now - getLastActivityTime(id) of each active session, in ms (0 when none)
  proc,                 \* the process: up, in the SIGINT handler (closing, stopping), or exited
  sessionPromises,      \* SIGINT handler: channelId -> state of the promise of its closeSession
  provider,             \* the adapter at the far end of each connection ("none" = not connected yet)
  events,               \* the engine events emitted for each channel, in emission order
  inbox,                \* the messages each connection has been sent, in sending order
  encoded,              \* the adapters whose output path ran for the last audioOutput event
  raised,               \* whether the last engine-event callback threw
  twilioStreamSid,      \* conversation.twilioStreamSid of each handle (0 = undefined)
  pcmIn,                \* the samples of the audioOutput events of a channel so far, in order
  pcmOut,               \* the samples of the frames its callback has sent so far, in order
  audioBuffer,          \* the leftover the callback assigned at its end
  pcmSamples,           \* Twilio output path: the samples handed to tryProcessAudioOutput
  resampledPcmSamples,  \* ... after resample16kHzTo8kHz
  payload,              \* ... the base64 payload of the media message
  audioInput,           \* Twilio input path: the samples its media handler streams
  codecPc               \* how far the frame has come: pcm, media (sent), streamed

wsvars  == <<readyState, wsChan, joinPc, closePc, grace, graceH, ready, errors>>
regvars == <<channelConversations, channelClients, clientChannels>>
engvars == <<activeSessions, hState, hOps>>
routevars == <<integrations, msgPc>>
sigvars == <<proc, sessionPromises>>
fanvars == <<provider, events, inbox, encoded, raised, twilioStreamSid>>
pcmvars == <<pcmIn, pcmOut, audioBuffer, pcmSamples, resampledPcmSamples, payload,
             audioInput, codecPc>>
auxvars == <<routevars, sinceActivity, sigvars, fanvars, pcmvars>>
vars    == <<server, wsvars, regvars, engvars, zeroReached, lastReturned, auxvars>>

(* Map<K,V> *)
Has(m, k) == k \in DOMAIN m
Put(m, k, v) == [x \in (DOMAIN m) \cup {k} |-> IF x = k THEN v ELSE m[x]]
Del(m, k) == [x \in (DOMAIN m) \ {k} |-> m[x]]
EmptyMap == [x \in {} |-> 0]

NoReturn == [ws |-> 0, run |-> 0]
Idling == [pc |-> "idle", h |-> 0]
StartSteps == {"promptStart", "systemPrompt", "audioStart", "startSession"}
GraceSteps == {"audioEnd", "promptEnd", "close"}
NoOps == [audioEnd |-> 0, promptEnd |-> 0, close |-> 0, closeSession |-> 0]
Issue(ops, h, op) == [ops EXCEPT ![h][op] = @ + 1]

(* the gateway after construction: no connection, empty registry *)
InitState ==
  /\ server \in Builds
  /\ readyState = [w \in WS |-> "none"]
  /\ wsChan = [w \in WS |-> 0]
  /\ joinPc = [w \in WS |-> "idle"]
  /\ closePc = [w \in WS |-> "idle"]
  /\ grace = [w \in WS |-> "none"]
  /\ graceH = [w \in WS |-> 0]
  /\ ready = [w \in WS |-> "none"]
  /\ errors = [w \in WS |-> 0]
  /\ channelConversations = EmptyMap
  /\ channelClients = EmptyMap
  /\ clientChannels = EmptyMap
  /\ activeSessions = EmptyMap
  /\ hState = [w \in WS |-> "none"]
  /\ hOps = [w \in WS |-> NoOps]
  /\ zeroReached = [c \in ChannelIds |-> 0]
  /\ lastReturned = NoReturn
  /\ msgPc = [w \in WS |-> Idling]
  /\ sinceActivity = [c \in ChannelIds |-> 0]
  /\ proc = "up"
  /\ sessionPromises = EmptyMap
  /\ provider = [w \in WS |-> "none"]
  /\ events = [c \in ChannelIds |-> << >>]
  /\ inbox = [w \in WS |-> << >>]
  /\ encoded = {}
  /\ raised = FALSE
  /\ twilioStreamSid = [h \in WS |-> 0]
  /\ pcmIn = << >>
  /\ pcmOut = << >>
  /\ audioBuffer = << >>
  /\ resampledPcmSamples = << >>
  /\ payload = << >>
  /\ audioInput = << >>
  /\ codecPc = "pcm"

(* ... with no frame in the Twilio output path *)
InitGateway ==
  /\ InitState
  /\ pcmSamples = << >>

(* no adapter is switched on: BROWSER_ENABLED, VONAGE_ENABLED and
   TWILIO_ENABLED are unset *)
Init ==
  /\ InitGateway
  /\ integrations = {}

(* the connection whose handleClose returns in this step, if any *)
Returned ==
  LET r == {w \in WS : closePc[w] # "done" /\ closePc'[w] = "done"} IN
  IF r = {} THEN NoReturn ELSE [ws |-> CHOOSE w \in r : TRUE, run |-> 1]

(***************************************************************************)
(* Engine client (./client: NovaSonicBidirectionalStreamClient).           *)
(***************************************************************************)

(* A lifecycle transition; a closed handle stays closed. *)
Advance(hs, h, s) == IF hs[h] = "Closed" THEN hs ELSE [hs EXCEPT ![h] = s]

(* bedrockClient.closeSession(id) / forceCloseSession(id): closes the session
   the engine holds for id; e is [active, state, ops]. *)
CloseSession(e, id, tag) ==
  IF Has(e.active, id)
  THEN LET h == e.active[id] IN
       [active |-> Del(e.active, id),
        state  |-> [e.state EXCEPT ![h] = "Closed"],
        ops    |-> Issue(e.ops, h, tag)]
  ELSE e

(* session.close() on the handle h itself. *)
CloseHandle(e, h, tag) ==
  LET id == wsChan[h]
      mine == Has(e.active, id) /\ e.active[id] = h IN
  [active |-> IF mine THEN Del(e.active, id) ELSE e.active,
   state  |-> [e.state EXCEPT ![h] = "Closed"],
   ops    |-> Issue(e.ops, h, tag)]

Eng == [active |-> activeSessions, state |-> hState, ops |-> hOps]

SetEng(e) ==
  /\ activeSessions' = e.active
  /\ hState' = e.state
  /\ hOps' = e.ops

(* channelClients.get(c) || new Set() *)
Clients(c) == IF Has(channelClients, c) THEN channelClients[c] ELSE {}

(* bedrockClient.isSessionActive(id) *)
isSessionActive(id) == Has(activeSessions, id)

(***************************************************************************)
(* initializeOrJoinChannel                                                 *)
(***************************************************************************)

(* catch (error) { sendError(...); ws.close(); } with rs the readyState of ws *)
JoinFailed(ws, rs) ==
  /\ errors' = [errors EXCEPT ![ws] = IF rs = "OPEN" THEN @ + 1 ELSE @]
  /\ readyState' = [readyState EXCEPT ![ws] = IF rs = "OPEN" THEN "CLOSING" ELSE rs]
  /\ joinPc' = [joinPc EXCEPT ![ws] = "failed"]
  /\ UNCHANGED <<ready, clientChannels>>

(* clients.add(ws); clientChannels.set(ws, id); ws.send(sessionReady), where
   cc is the client-set map at this point and rs the readyState of ws *)
Attach(ws, c, cc, rs, isNewChannel) ==
  /\ channelClients' = [cc EXCEPT ![c] = @ \cup {ws}]
  /\ clientChannels' = Put(clientChannels, ws, c)
  /\ ready' = [ready EXCEPT ![ws] =
                 IF rs # "OPEN" THEN @
                 ELSE IF isNewChannel THEN "new" ELSE "existing"]
  /\ readyState' = [readyState EXCEPT ![ws] = rs]
  /\ joinPc' = [joinPc EXCEPT ![ws] = "done"]
  /\ UNCHANGED errors

(* A websocket connects to /socket?channel=c: the handler runs
   initializeOrJoinChannel up to its first await. *)
Connect(ws, c) ==
  /\ readyState[ws] = "none"
  /\ \A w \in WS : w < ws => readyState[w] # "none"
  /\ wsChan' = [wsChan EXCEPT ![ws] = c]
  /\ UNCHANGED <<closePc, grace, graceH, server>>
  /\ IF Has(channelConversations, c)
     THEN /\ IF Has(channelClients, c)
             THEN Attach(ws, c, channelClients, "OPEN", FALSE)
             ELSE JoinFailed(ws, "OPEN") /\ UNCHANGED channelClients
          /\ UNCHANGED <<channelConversations, engvars, zeroReached>>
     ELSE \E thrown \in BOOLEAN :
          IF thrown
          THEN /\ JoinFailed(ws, "OPEN")
               /\ UNCHANGED <<channelConversations, channelClients, engvars, zeroReached>>
          ELSE /\ activeSessions' = Put(activeSessions, c, ws)
               /\ hState' = [hState EXCEPT ![ws] = "Uninitiated"]
               /\ readyState' = [readyState EXCEPT ![ws] = "OPEN"]
               /\ UNCHANGED <<ready, errors, clientChannels, hOps>>
               /\ IF server = "v1"
                  THEN /\ channelConversations' = Put(channelConversations, c, ws)
                       /\ channelClients' = Put(channelClients, c, {})
                       /\ zeroReached' = [zeroReached EXCEPT ![c] = 0]
                       /\ joinPc' = [joinPc EXCEPT ![ws] = "promptStart"]
                  ELSE /\ joinPc' = [joinPc EXCEPT ![ws] = "startSession"]
                       /\ UNCHANGED <<channelConversations, channelClients, zeroReached>>
  /\ lastReturned' = Returned

(* The awaited step of the start sequence settles. *)
JoinStep(ws, ok) ==
  LET c == wsChan[ws]
      pc == joinPc[ws] IN
  /\ pc \in StartSteps
  /\ UNCHANGED <<wsChan, closePc, grace, graceH, server, activeSessions, hOps>>
  /\ IF ~ok
     THEN /\ JoinFailed(ws, readyState[ws])
          /\ UNCHANGED <<channelConversations, channelClients, zeroReached,
                         hState>>
     ELSE /\ CASE pc = "promptStart" ->
                    /\ hState' = Advance(hState, ws, "PromptStarted")
                    /\ joinPc' = [joinPc EXCEPT ![ws] = "systemPrompt"]
                    /\ UNCHANGED <<regvars, zeroReached, readyState, ready, errors>>
               [] pc = "systemPrompt" ->
                    /\ hState' = Advance(hState, ws, "SystemPromptSet")
                    /\ joinPc' = [joinPc EXCEPT ![ws] = "audioStart"]
                    /\ UNCHANGED <<regvars, zeroReached, readyState, ready, errors>>
               [] pc = "audioStart" ->
                    /\ hState' = Advance(hState, ws, "AudioStarted")
                    /\ UNCHANGED <<channelConversations, zeroReached>>
                    /\ IF Has(channelClients, c)
                       THEN Attach(ws, c, channelClients, readyState[ws], TRUE)
                       ELSE JoinFailed(ws, readyState[ws]) /\ UNCHANGED channelClients
               [] pc = "startSession" ->
                    /\ hState' = Advance(hState, ws, "AudioStarted")
                    /\ channelConversations' = Put(channelConversations, c, ws)
                    /\ zeroReached' = [zeroReached EXCEPT ![c] = 0]
                    /\ Attach(ws, c, Put(channelClients, c, {}), readyState[ws], TRUE)
  /\ lastReturned' = Returned

(***************************************************************************)
(* handleClose                                                             *)
(***************************************************************************)

(* Cleanup without the two channel deletes: the channel stays registered. *)
Cleanup_KeepChannel(ws, c) ==
  /\ clientChannels' = Del(clientChannels, ws)
  /\ UNCHANGED <<channelConversations, channelClients>>

(* Cleanup without clientChannels.delete(ws): the connection keeps its entry. *)
Cleanup_KeepClient(ws, c) ==
  /\ channelConversations' = Del(channelConversations, c)
  /\ channelClients' = Del(channelClients, c)
  /\ UNCHANGED clientChannels

(* Cleanup without channelClients.delete(id): the client set stays. *)
Cleanup_KeepSet(ws, c) ==
  /\ channelConversations' = Del(channelConversations, c)
  /\ clientChannels' = Del(clientChannels, ws)
  /\ UNCHANGED channelClients

(* channelConversations.delete(id); channelClients.delete(id);
   clientChannels.delete(ws) *)
Cleanup(ws, c) ==
  /\ channelConversations' = Del(channelConversations, c)
  /\ channelClients' = Del(channelClients, c)
  /\ clientChannels' = Del(clientChannels, ws)

(* catch (error) { try { bedrockClient.closeSession(id) } catch (e) {} }: the
   fallback close, which may itself throw, applied to the engine e. *)
FallbackClose(e, c, thrown) ==
  IF thrown THEN e ELSE CloseSession(e, c, "closeSession")

(* The body of handleClose up to its await (or to its return). *)
HandleCloseBody(ws) ==
  IF ~Has(clientChannels, ws)
  THEN /\ closePc' = [closePc EXCEPT ![ws] = "done"]
       /\ UNCHANGED <<regvars, engvars, grace, graceH, zeroReached>>
  ELSE
    LET c == clientChannels[ws] IN
    IF ~Has(channelClients, c)
    THEN /\ clientChannels' = Del(clientChannels, ws)
         /\ closePc' = [closePc EXCEPT ![ws] = "done"]
         /\ UNCHANGED <<channelConversations, channelClients, engvars,
                        grace, graceH, zeroReached>>
    ELSE
      LET remaining == channelClients[c] \ {ws} IN
      IF remaining # {}
      THEN /\ channelClients' = [channelClients EXCEPT ![c] = remaining]
           /\ clientChannels' = Del(clientChannels, ws)
           /\ closePc' = [closePc EXCEPT ![ws] = "done"]
           /\ UNCHANGED <<channelConversations, engvars, grace, graceH, zeroReached>>
      ELSE
        /\ zeroReached' = [zeroReached EXCEPT ![c] = @ + 1]
        /\ IF Has(channelConversations, c) /\ isSessionActive(c)
           THEN LET h == channelConversations[c] IN
                /\ channelClients' = [channelClients EXCEPT ![c] = remaining]
                /\ graceH' = [graceH EXCEPT ![ws] = h]
                /\ grace' = [grace EXCEPT ![ws] = "audioEnd"]
                /\ hOps' = Issue(hOps, h, "audioEnd")
                /\ closePc' = [closePc EXCEPT ![ws] = "race"]
                /\ UNCHANGED <<channelConversations, clientChannels,
                               activeSessions, hState>>
           ELSE /\ Cleanup(ws, c)
                /\ closePc' = [closePc EXCEPT ![ws] = "done"]
                /\ UNCHANGED <<engvars, grace, graceH>>

(* The close event of a websocket: the client went away, or the closing
   handshake that ws.close() started has finished. *)
HandleClose(ws) ==
  /\ readyState[ws] \in {"OPEN", "CLOSING"}
  /\ closePc[ws] = "idle"
  /\ readyState' = [readyState EXCEPT ![ws] = "CLOSED"]
  /\ HandleCloseBody(ws)
  /\ UNCHANGED <<wsChan, joinPc, ready, errors, server>>
  /\ lastReturned' = Returned

(* handleClose run once more for a connection, directly after its run for
   that connection returned. *)
HandleCloseAgain(ws) ==
  /\ lastReturned = [ws |-> ws, run |-> 1]
  /\ HandleCloseBody(ws)
  /\ UNCHANGED <<readyState, wsChan, joinPc, ready, errors, server>>
  /\ lastReturned' = IF closePc'[ws] = "done" THEN [ws |-> ws, run |-> 2] ELSE NoReturn

(* The step awaited by the graceful sequence (endAudioContent, endPrompt,
   close) settles; the sequence goes on whether or not the race is over. *)
GraceStep(ws, ok, thrown) ==
  LET h == graceH[ws]
      c == wsChan[ws]
      pc == grace[ws]
      racing == closePc[ws] = "race" IN
  /\ pc \in GraceSteps
  /\ UNCHANGED <<readyState, wsChan, joinPc, graceH, ready, errors, server,
                 zeroReached>>
  /\ IF ~ok
     THEN /\ grace' = [grace EXCEPT ![ws] = "failed"]
          /\ IF racing
             THEN /\ SetEng(FallbackClose(Eng, c, thrown))
                  /\ Cleanup(ws, c)
                  /\ closePc' = [closePc EXCEPT ![ws] = "done"]
             ELSE /\ ~thrown
                  /\ UNCHANGED <<engvars, regvars, closePc>>
     ELSE
       /\ ~thrown
       /\ CASE pc = "audioEnd" ->
                 /\ grace' = [grace EXCEPT ![ws] = "promptEnd"]
                 /\ hState' = Advance(hState, h, "AudioEnded")
                 /\ hOps' = Issue(hOps, h, "promptEnd")
                 /\ UNCHANGED <<activeSessions, regvars, closePc>>
            [] pc = "promptEnd" ->
                 /\ grace' = [grace EXCEPT ![ws] = "close"]
                 /\ SetEng(CloseHandle([Eng EXCEPT !.state = Advance(hState, h, "PromptEnded")],
                                       h, "close"))
                 /\ UNCHANGED <<regvars, closePc>>
            [] pc = "close" ->
                 /\ grace' = [grace EXCEPT ![ws] = "done"]
                 /\ UNCHANGED engvars
                 /\ IF racing
                    THEN Cleanup(ws, c) /\ closePc' = [closePc EXCEPT ![ws] = "done"]
                    ELSE UNCHANGED <<regvars, closePc>>
  /\ lastReturned' = Returned

(* setTimeout(() => reject(new Error("Session cleanup timeout")), 3000) fires
   while the race is undecided *)
Timeout(ws, thrown) ==
  /\ closePc[ws] = "race"
  /\ SetEng(FallbackClose(Eng, wsChan[ws], thrown))
  /\ Cleanup(ws, wsChan[ws])
  /\ closePc' = [closePc EXCEPT ![ws] = "done"]
  /\ UNCHANGED <<readyState, wsChan, joinPc, grace, graceH, ready, errors, server, zeroReached>>
  /\ lastReturned' = Returned

(***************************************************************************)
(* handleMessage                                                           *)
(***************************************************************************)

(* What a client sends: text that is no JSON (a raw PCM frame is such a
   message), JSON with no known type or event, the browser's audioInput
   envelope, the four control messages, and Twilio's media event. *)
Control == {"promptStart", "systemPrompt", "audioStart", "stopAudio"}
Msgs == {"garbage", "unknown", "audioInput", "twilioMedia"} \cup Control

(* Accept with stream-audio taken in every state before Closed. *)
Accept_StreamAnywhere(s, op) ==
  IF op = "streamAudio" /\ s \notin {"none", "Closed"} THEN "Streaming" ELSE s

(* Conversation Lifecycle Controller: the state of a handle after the
   operation op, which is accepted only in its place of the protocol. *)
Accept(s, op) ==
  CASE op = "setupPromptStart" /\ s = "Uninitiated" -> "PromptStarted"
    [] op = "setupSystemPrompt" /\ s = "PromptStarted" -> "SystemPromptSet"
    [] op = "setupStartAudio" /\ s = "SystemPromptSet" -> "AudioStarted"
    [] op = "streamAudio" /\ s \in {"AudioStarted", "Streaming"} -> "Streaming"
    [] op = "endAudioContent" /\ s \in {"AudioStarted", "Streaming"} -> "AudioEnded"
    [] op = "endPrompt" /\ s = "AudioEnded" -> "PromptEnded"
    [] OTHER -> s

RECURSIVE AcceptAll(_, _)
AcceptAll(s, ops) ==
  IF ops = <<>> THEN s ELSE AcceptAll(Accept(s, Head(ops)), Tail(ops))

(* the operation a control message stands for, up to its first await *)
ControlOp(m) ==
  CASE m = "promptStart" -> "setupPromptStart"
    [] m = "systemPrompt" -> "setupSystemPrompt"
    [] m = "audioStart" -> "setupStartAudio"
    [] m = "stopAudio" -> "endAudioContent"

If(cond, ops) == IF cond THEN ops ELSE <<>>

(* twilio.tryProcessAudioInput parses outside its try: text that is no JSON
   throws out of it into the catch of handleMessage *)
TwilioThrows(m) == server = "v2" /\ "twilio" \in integrations /\ m = "garbage"

(* The operations handleMessage invokes on the handle for message m, in
   order, up to the await of endAudioContent; ok: the operations succeed. *)
Invoked(m, ok) ==
  IF server = "v1"
  THEN CASE m = "garbage" -> <<"streamAudio">>
         [] m \in Control -> <<ControlOp(m)>> \o If(~ok, <<"streamAudio">>)
         [] m = "audioInput" -> <<"streamAudio">>
         [] OTHER -> <<>>
  ELSE If("browser" \in integrations /\ m = "audioInput", <<"streamAudio">>)
       \o If("vonage" \in integrations, <<"streamAudio">>)
       \o If("twilio" \in integrations /\ m = "twilioMedia", <<"streamAudio">>)
       \o If(~TwilioThrows(m) /\ m \in Control, <<ControlOp(m)>>)

(* whether handleMessage ends in its catch block, which calls sendError *)
Caught(m, ok) ==
  IF server = "v1" THEN m # "audioInput" \/ ~ok ELSE TwilioThrows(m)

(* the connection has a channel whose handle is in the registry *)
Resolved(ws) == Has(clientChannels, ws) /\ Has(channelConversations, clientChannels[ws])

(* sendError with no return after it: the check that follows fails as well
   and sends a second error event. *)
SendError_Twice(ws) ==
  errors' = [errors EXCEPT ![ws] = IF readyState[ws] = "OPEN" THEN @ + 2 ELSE @]

(* sendError: ws.send of an error event *)
SendError(ws) ==
  errors' = [errors EXCEPT ![ws] = IF readyState[ws] = "OPEN" THEN @ + 1 ELSE @]

(* The message event of a websocket: handleMessage runs to its end, or to
   the await of endAudioContent. *)
Message(ws, m, ok) ==
  /\ readyState[ws] \in {"OPEN", "CLOSING"}
  /\ errors[ws] < MaxErrors
  /\ m = "stopAudio" => msgPc[ws] = Idling
  /\ UNCHANGED <<server, readyState, wsChan, joinPc, closePc, grace, graceH, ready,
                 regvars, activeSessions, hOps, zeroReached, integrations>>
  /\ lastReturned' = Returned
  /\ IF ~Has(clientChannels, ws)
     THEN SendError(ws) /\ UNCHANGED <<hState, msgPc>>
     ELSE IF ~Has(channelConversations, clientChannels[ws])
     THEN SendError(ws) /\ UNCHANGED <<hState, msgPc>>
     ELSE LET h == channelConversations[clientChannels[ws]]
              awaits == m = "stopAudio" /\ ok /\ ~TwilioThrows(m) IN
          /\ hState' = IF ok THEN [hState EXCEPT ![h] = AcceptAll(@, Invoked(m, ok))]
                       ELSE hState
          /\ msgPc' = IF awaits THEN [msgPc EXCEPT ![ws] = [pc |-> "endPrompt", h |-> h]]
                      ELSE msgPc
          /\ IF ~awaits /\ Caught(m, ok) THEN SendError(ws) ELSE UNCHANGED errors

(* endAudioContent has settled: the stopAudio handler goes on with endPrompt,
   and handleMessage runs to its end. *)
MessageStep(ws, ok) ==
  /\ msgPc[ws].pc = "endPrompt"
  /\ msgPc' = [msgPc EXCEPT ![ws] = Idling]
  /\ hState' = IF ok THEN [hState EXCEPT ![msgPc[ws].h] = Accept(@, "endPrompt")]
               ELSE hState
  /\ IF server = "v1" THEN SendError(ws) ELSE UNCHANGED errors
  /\ UNCHANGED <<server, readyState, wsChan, joinPc, closePc, grace, graceH, ready,
                 regvars, activeSessions, hOps, zeroReached, integrations>>
  /\ lastReturned' = Returned

(***************************************************************************)
(* Idle reaper: setInterval(..., 60000)                                    *)
(***************************************************************************)

(* the values of now - lastActivity a sweep is run with: none, exactly the
   threshold, and just beyond it *)
Elapsed == {0, fiveMinsInMs, fiveMinsInMs + 1}

(* Idle with >= for >: a session exactly at the threshold counts as idle. *)
Idle_AtThreshold(elapsed) == {id \in DOMAIN activeSessions : elapsed[id] >= fiveMinsInMs}

(* the sessions a sweep finds idle, elapsed[id] being now - lastActivity *)
Idle(elapsed) == {id \in DOMAIN activeSessions : elapsed[id] > fiveMinsInMs}

(* the engine after closeSession / forceCloseSession of the sessions in ids *)
ReaperClose(ids) ==
  LET hs == {activeSessions[id] : id \in ids} IN
  [active |-> [id \in (DOMAIN activeSessions) \ ids |-> activeSessions[id]],
   state  |-> [h \in WS |-> IF h \in hs THEN "Closed" ELSE hState[h]],
   ops    |-> [h \in WS |-> IF h \in hs
                            THEN [hOps[h] EXCEPT !.closeSession = @ + 1]
                            ELSE hOps[h]]]

(* Sweep without the try/catch around the close: the first close that throws
   ends the forEach, the sessions taken in the order of their ids. *)
Sweep_StopAtThrow(elapsed, thrown) ==
  /\ thrown \subseteq Idle(elapsed)
  /\ SetEng(ReaperClose({id \in Idle(elapsed) : \A t \in thrown : id < t}))
  /\ UNCHANGED <<wsvars, regvars, server, zeroReached>>
  /\ lastReturned' = Returned

(* One sweep over getActiveSessions(); the closes of the sessions in thrown
   throw and are caught. *)
Sweep(elapsed, thrown) ==
  /\ thrown \subseteq Idle(elapsed)
  /\ SetEng(ReaperClose(Idle(elapsed) \ thrown))
  /\ UNCHANGED <<wsvars, regvars, server, zeroReached>>
  /\ lastReturned' = Returned

(* the interval timer fires *)
Reaper ==
  \E elapsed \in [DOMAIN activeSessions -> Elapsed], thrown \in SUBSET ChannelIds :
    Sweep(elapsed, thrown)

(* GET /channels: id -> clientCount, active *)
channelsListing ==
  [c \in DOMAIN channelClients |->
     [clientCount |-> Cardinality(channelClients[c]), active |-> isSessionActive(c)]]

(***************************************************************************)
(* Specification                                                           *)
(***************************************************************************)

Next ==
  \/ \E ws \in WS, c \in ChannelIds : Connect(ws, c) /\ UNCHANGED auxvars
  \/ \E ws \in WS, ok \in BOOLEAN : JoinStep(ws, ok) /\ UNCHANGED auxvars
  \/ \E ws \in WS : HandleClose(ws) /\ UNCHANGED auxvars
  \/ \E ws \in WS : HandleCloseAgain(ws) /\ UNCHANGED auxvars
  \/ \E ws \in WS, ok \in BOOLEAN, thrown \in BOOLEAN :
       GraceStep(ws, ok, thrown) /\ UNCHANGED auxvars
  \/ \E ws \in WS, thrown \in BOOLEAN : Timeout(ws, thrown) /\ UNCHANGED auxvars
  \/ Reaper /\ UNCHANGED auxvars

Spec == Init /\ [][Next]_vars


(* The 3-second timer of a pending teardown always fires (event loop);
   nothing is assumed of the engine. *)
LiveSpec ==
  Spec /\ \A ws \in WS :
           WF_vars(\E thrown \in BOOLEAN : Timeout(ws, thrown) /\ UNCHANGED auxvars)

(* The gateway with its clients sending messages, all on one channel; the
   adapters are switched on by the environment of the process (the first
   build has none).  A teardown waits for its timer here: the steps of its
   graceful sequence are those of Spec. *)
RouteInit ==
  /\ InitGateway
  /\ integrations \in IF server = "v1" THEN {{}} ELSE SUBSET Providers

RouteNext ==
  \/ \E ws \in WS : Connect(ws, 1) /\ UNCHANGED auxvars
  \/ \E ws \in WS, ok \in BOOLEAN : JoinStep(ws, ok) /\ UNCHANGED auxvars
  \/ \E ws \in WS : HandleClose(ws) /\ UNCHANGED auxvars
  \/ \E ws \in WS, thrown \in BOOLEAN : Timeout(ws, thrown) /\ UNCHANGED auxvars
  \/ Reaper /\ UNCHANGED auxvars
  \/ \E ws \in WS, m \in Msgs, ok \in BOOLEAN : Message(ws, m, ok) /\ UNCHANGED <<sinceActivity, sigvars, fanvars, pcmvars>>
  \/ \E ws \in WS, ok \in BOOLEAN : MessageStep(ws, ok) /\ UNCHANGED <<sinceActivity, sigvars, fanvars, pcmvars>>

RouteSpec == RouteInit /\ [][RouteNext]_vars

(***************************************************************************)
(* The idle reaper with the clock.  The engine keeps the time of the last  *)
(* activity of each session; sinceActivity is its distance from now,       *)
(* counted up to just beyond the threshold.  The clients stay connected.   *)
(***************************************************************************)

Min(a, b) == IF a < b THEN a ELSE b

(* the sessions in touched were active in this step, at time now *)
Stamp(touched) ==
  sinceActivity' = [c \in ChannelIds |->
                      IF ~Has(activeSessions', c) \/ c \in touched THEN 0
                      ELSE sinceActivity[c]]

(* the ids for which this step created a session *)
Created == {c \in ChannelIds : /\ Has(activeSessions', c)
                               /\ ~Has(activeSessions, c) \/ activeSessions'[c] # activeSessions[c]}

(* Date.now() advances by d ms: by a period of the sweep timer, or by one
   millisecond when a session stands exactly at the threshold *)
Tick(d) ==
  /\ d = 1 => \E c \in DOMAIN activeSessions : sinceActivity[c] = fiveMinsInMs
  /\ \E c \in DOMAIN activeSessions : sinceActivity[c] <= fiveMinsInMs
  /\ sinceActivity' = [c \in ChannelIds |->
                         IF Has(activeSessions, c)
                         THEN Min(sinceActivity[c] + d, fiveMinsInMs + 1) ELSE 0]
  /\ UNCHANGED <<server, wsvars, regvars, engvars, zeroReached, lastReturned, routevars>>

(* the sweep of the interval timer at time now *)
TimedSweep(thrown) ==
  /\ Sweep([id \in DOMAIN activeSessions |-> sinceActivity[id]], thrown)
  /\ Stamp({})

(* an attached client sends audio; a session is active whenever an operation
   is invoked on its handle *)
Speak(ws) ==
  /\ Message(ws, "audioInput", TRUE)
  /\ Stamp(IF Resolved(ws) /\ Invoked("audioInput", TRUE) # <<>>
           THEN {clientChannels[ws]} ELSE {})

TimedInit ==
  /\ InitGateway
  /\ integrations = {"browser"}

TimedNext ==
  \/ \E ws \in WS, c \in ChannelIds : Connect(ws, c) /\ Stamp(Created) /\ UNCHANGED <<routevars, sigvars, fanvars, pcmvars>>
  \/ \E ws \in WS, ok \in BOOLEAN :
       JoinStep(ws, ok) /\ Stamp(IF ok THEN {wsChan[ws]} ELSE {}) /\ UNCHANGED <<routevars, sigvars, fanvars, pcmvars>>
  \/ \E ws \in WS : Speak(ws) /\ UNCHANGED <<sigvars, fanvars, pcmvars>>
  \/ \E d \in {1, sweepPeriodMs} : Tick(d) /\ UNCHANGED <<sigvars, fanvars, pcmvars>>
  \/ \E thrown \in SUBSET ChannelIds : TimedSweep(thrown) /\ UNCHANGED <<routevars, sigvars, fanvars, pcmvars>>

TimedSpec == TimedInit /\ [][TimedNext]_vars

(***************************************************************************)
(* process.on("SIGINT")                                                    *)
(***************************************************************************)

Exited == proc \in {"exit0", "exit1"}
(* the servers take new connections until server.close() is called *)
Accepting == proc \in {"up", "closing"}
(* the websockets the servers still hold *)
Sockets == {w \in WS : readyState[w] \in {"OPEN", "CLOSING"}}

(* clients.forEach((ws) => { if (ws.readyState === OPEN) ws.close() }) for the
   client sets of the channels in ids *)
CloseClients(ids) ==
  LET cs == UNION {Clients(c) : c \in ids} IN
  readyState' = [w \in WS |-> IF w \in cs /\ readyState[w] = "OPEN"
                              THEN "CLOSING" ELSE readyState[w]]

(* Promise.all(ps) is fulfilled when no promise of ps is pending or rejected;
   the handler then goes on, with no event in between, to call
   server.close(resolve) and httpsServer.close(resolve) and awaits both *)
Fulfilled(ps) == \A c \in DOMAIN ps : ps[c] \in {"fulfilled", "recovered"}

(* The signal arrives: the handler arms forceExitTimer, asks the engine to
   close the session of every channel of the registry, closes the open
   clients of each, and awaits Promise.all(sessionPromises). *)
Sigint ==
  /\ proc = "up"
  /\ proc' = IF DOMAIN channelConversations = {} THEN "stopping" ELSE "closing"
  /\ sessionPromises' = [c \in DOMAIN channelConversations |-> "pending"]
  /\ CloseClients(DOMAIN channelConversations)
  /\ UNCHANGED <<server, wsChan, joinPc, closePc, grace, graceH, ready, errors,
                 regvars, engvars, zeroReached, routevars, sinceActivity, fanvars, pcmvars>>
  /\ lastReturned' = Returned

(* closeSession(c) settles.  Fulfilled: the session is closed.  Rejected: the
   first build runs forceCloseSession(c) in its .catch, which may throw; the
   second build has no .catch.  A promise left rejected rejects Promise.all
   and the handler's catch calls process.exit(1). *)
SigSettle(c, ok, thrown) ==
  /\ proc = "closing"
  /\ Has(sessionPromises, c) /\ sessionPromises[c] = "pending"
  /\ ok => ~thrown
  /\ (~ok /\ server = "v2") => ~thrown
  /\ IF ok \/ (server = "v1" /\ ~thrown)
     THEN /\ SetEng(CloseSession(Eng, c, "closeSession"))
          /\ sessionPromises' =
               [sessionPromises EXCEPT ![c] = IF ok THEN "fulfilled" ELSE "recovered"]
          /\ proc' = IF Fulfilled(sessionPromises') THEN "stopping" ELSE proc
     ELSE /\ sessionPromises' = [sessionPromises EXCEPT ![c] = "rejected"]
          /\ proc' = "exit1"
          /\ UNCHANGED engvars
  /\ UNCHANGED <<server, wsvars, regvars, zeroReached, routevars, sinceActivity, fanvars, pcmvars>>
  /\ lastReturned' = Returned

(* both servers have closed, which takes the end of every connection they
   hold: clearTimeout(forceExitTimer); process.exit(0) *)
SigStopped ==
  /\ proc = "stopping"
  /\ Sockets = {}
  /\ proc' = "exit0"
  /\ UNCHANGED <<server, wsvars, regvars, engvars, zeroReached, routevars,
                 sinceActivity, fanvars, pcmvars, sessionPromises>>
  /\ lastReturned' = Returned

(* SigTimer with clearTimeout(forceExitTimer) placed before the servers are
   awaited: the timer fires only while the closes are pending. *)
SigTimer_ClearedEarly ==
  /\ proc = "closing"
  /\ proc' = "exit1"
  /\ UNCHANGED <<server, wsvars, regvars, engvars, zeroReached, routevars,
                 sinceActivity, fanvars, pcmvars, sessionPromises>>
  /\ lastReturned' = Returned

(* forceExitTimer fires 5000 ms after the signal: process.exit(1) *)
SigTimer ==
  /\ proc \in {"closing", "stopping"}
  /\ proc' = "exit1"
  /\ UNCHANGED <<server, wsvars, regvars, engvars, zeroReached, routevars,
                 sinceActivity, fanvars, pcmvars, sessionPromises>>
  /\ lastReturned' = Returned

(* The gateway with the signal handler.  An exited process takes no step, and
   a server that was closed takes no connection.  A teardown waits for its
   timer here: the steps of its graceful sequence are those of Spec. *)
ShutdownNext ==
  \/ \E ws \in WS, c \in ChannelIds : Accepting /\ Connect(ws, c) /\ UNCHANGED auxvars
  \/ \E ws \in WS, ok \in BOOLEAN : ~Exited /\ JoinStep(ws, ok) /\ UNCHANGED auxvars
  \/ \E ws \in WS : ~Exited /\ HandleClose(ws) /\ UNCHANGED auxvars
  \/ \E ws \in WS, thrown \in BOOLEAN :
       ~Exited /\ Timeout(ws, thrown) /\ UNCHANGED auxvars
  \/ Sigint
  \/ \E c \in ChannelIds, ok \in BOOLEAN, thrown \in BOOLEAN : SigSettle(c, ok, thrown)
  \/ SigStopped
  \/ SigTimer

ShutdownSpec == Init /\ [][ShutdownNext]_vars

(* forceExitTimer is never cleared before process.exit, so it fires if the
   handler has not exited by itself. *)
ShutdownLive == ShutdownSpec /\ WF_vars(SigTimer)

(* The whole gateway: joins, leaves, teardowns with their graceful sequence,
   the reaper and the signal handler. *)
RegistryNext ==
  \/ ShutdownNext
  \/ \E ws \in WS, ok \in BOOLEAN, thrown \in BOOLEAN :
       ~Exited /\ GraceStep(ws, ok, thrown) /\ UNCHANGED auxvars
  \/ ~Exited /\ Reaper /\ UNCHANGED auxvars

RegistrySpec == Init /\ [][RegistryNext]_vars

(***************************************************************************)
(* setUpEventHandlersForChannel                                            *)
(***************************************************************************)

(* What the engine emits for a channel: one of the structured events
   (contentStart, textOutput, error, toolUse, toolResult, contentEnd),
   streamComplete, or audioOutput with a content of so many whole 640-byte
   frames. *)
Events ==
  [kind : {"event", "streamComplete"}, frames : {0}]
    \cup [kind : {"audioOutput"}, frames : 1..MaxFrames]

(* a message on the wire: the event it belongs to, its format, the number of
   audio samples it carries, and its streamSid (0 = none) *)
Msg(n, fmt, samples) == [ev |-> n, fmt |-> fmt, samples |-> samples, sid |-> 0]

(* the format each adapter reads: the browser the JSON audioOutput envelope,
   Vonage raw 16 kHz PCM frames, Twilio JSON media events with 8 kHz mulaw *)
WireFormat(p) ==
  CASE p = "browser" -> "audioOutput"
    [] p = "vonage" -> "pcm"
    [] p = "twilio" -> "media"

(* client.send(m) putting m before what is already queued for the client *)
Broadcast_Front(r, cs, m) ==
  [box |-> [w \in WS |-> IF w \in cs /\ readyState[w] = "OPEN"
                         THEN << m >> \o r.box[w] ELSE r.box[w]],
   raised |-> r.raised]

(* clients.forEach that stops at the first client that is not OPEN and
   throws, with the clients taken in the order of their connection *)
Broadcast_UntilClosed(r, cs, m) ==
  LET shut == {w \in cs : readyState[w] # "OPEN"} IN
  [box |-> [w \in WS |-> IF w \in cs /\ (\A x \in shut : w < x)
                         THEN Append(r.box[w], m) ELSE r.box[w]],
   raised |-> r.raised \/ shut # {}]

(* clients.forEach((client) => { if (client.readyState === WebSocket.OPEN)
   client.send(m) }) applied to the inboxes r.box; nothing in it throws *)
Broadcast(r, cs, m) ==
  [box |-> [w \in WS |-> IF w \in cs /\ readyState[w] = "OPEN"
                         THEN Append(r.box[w], m) ELSE r.box[w]],
   raised |-> r.raised]

(* one broadcast after the other *)
RECURSIVE BroadcastAll(_, _, _)
BroadcastAll(r, cs, ms) ==
  IF ms = << >> THEN r
  ELSE BroadcastAll(Broadcast(r, cs, Head(ms)), cs, Tail(ms))

(* while (offset + SAMPLES_PER_CHUNK <= pcmSamples.length): one raw chunk per
   whole frame *)
Chunks(n, samples) ==
  [i \in 1..(samples \div SAMPLES_PER_CHUNK) |-> Msg(n, "pcm", SAMPLES_PER_CHUNK)]

(* const outputLength = Math.ceil(pcmSamples.length / 2) *)
outputLength(length) == (length + 1) \div 2

(* TwilioIntegration.tryProcessAudioOutput: one media message with the whole
   resampled buffer, mulaw.encode giving one byte for each sample *)
TwilioOut(n, samples, streamSid) ==
  << [Msg(n, "media", outputLength(samples)) EXCEPT !.sid = streamSid] >>

(* BrowserIntegration.tryProcessAudioOutput: one JSON envelope with the
   content as it came.  browser.ts does not import WebSocket: where the
   runtime has no global of that name the forEach callback throws and the
   promise of the async method, which nobody awaits, is rejected. *)
BrowserOut(n, samples, hasGlobal) ==
  IF hasGlobal THEN << Msg(n, "audioOutput", samples) >> ELSE << >>

(* the messages the callback of event e, the n-th of its channel, broadcasts,
   in the order of its statements *)
Outbound(n, e, hasGlobal, streamSid) ==
  LET samples == e.frames * SAMPLES_PER_CHUNK IN
  IF e.kind # "audioOutput" THEN << Msg(n, e.kind, 0) >>
  ELSE IF server = "v1"
  THEN << Msg(n, "audioOutput", samples) >> \o Chunks(n, samples)
  ELSE Chunks(n, samples)
         \o (IF "twilio" \in integrations
             THEN TwilioOut(n, samples, streamSid) ELSE << >>)
         \o (IF "browser" \in integrations
             THEN BrowserOut(n, samples, hasGlobal) ELSE << >>)

(* the adapters whose output path runs on an audioOutput event: useJson and
   useVonage in the first build; in the second the raw chunks always, Twilio
   and browser if switched on *)
Encoders ==
  IF server = "v1" THEN {"browser", "vonage"}
  ELSE {"vonage"} \cup (integrations \cap {"twilio", "browser"})

(* The engine emits event e for channel c and the callback registered for it
   runs to its end. *)
Emit(c, e, hasGlobal) ==
  /\ Has(channelConversations, c)
  /\ Len(events[c]) < MaxEvents
  /\ LET n == Len(events[c]) + 1
         r == BroadcastAll([box |-> inbox, raised |-> FALSE], Clients(c),
                           Outbound(n, e, hasGlobal,
                                    twilioStreamSid[channelConversations[c]]))
     IN /\ inbox' = r.box
        /\ raised' = r.raised
  /\ events' = [events EXCEPT ![c] = Append(@, e)]
  /\ encoded' = IF e.kind = "audioOutput" THEN Encoders ELSE encoded
  /\ UNCHANGED <<server, wsvars, regvars, engvars, zeroReached, routevars,
                 sinceActivity, sigvars, provider, twilioStreamSid, pcmvars>>
  /\ lastReturned' = Returned

(* a connection is made by a browser, by Vonage or by Twilio *)
Dial(ws, c, p) ==
  /\ Connect(ws, c)
  /\ provider' = [provider EXCEPT ![ws] = p]
  /\ UNCHANGED <<routevars, sinceActivity, sigvars, events, inbox, encoded, raised,
                 twilioStreamSid, pcmvars>>

FanoutInit ==
  /\ InitGateway
  /\ integrations \in (IF server = "v1" THEN {{}} ELSE SUBSET Providers)

FanoutNext ==
  \/ \E ws \in WS, p \in Providers : Dial(ws, 1, p)
  \/ \E ws \in WS, ok \in BOOLEAN : JoinStep(ws, ok) /\ UNCHANGED auxvars
  \/ \E ws \in WS : HandleClose(ws) /\ UNCHANGED auxvars
  \/ \E ws \in WS, thrown \in BOOLEAN : Timeout(ws, thrown) /\ UNCHANGED auxvars
  \/ \E c \in ChannelIds, e \in Events, hasGlobal \in BOOLEAN : Emit(c, e, hasGlobal)

(* One channel, two connections, two events: the fan-out does not depend on
   the channel id. *)
FanoutSpec == FanoutInit /\ [][FanoutNext]_vars

(* handleMessage for the start event of a Twilio stream, whose streamSid is
   taken to be the id of the connection: the Twilio adapter stores it on the
   conversation; the browser adapter finds no audioInput and the control
   handler no type; the Vonage adapter streams the message as audio. *)
TwilioStart(ws) ==
  /\ readyState[ws] \in {"OPEN", "CLOSING"}
  /\ provider[ws] = "twilio"
  /\ Resolved(ws)
  /\ LET h == channelConversations[clientChannels[ws]] IN
     /\ twilioStreamSid' = IF "twilio" \in integrations
                           THEN [twilioStreamSid EXCEPT ![h] = ws]
                           ELSE twilioStreamSid
     /\ hState' = [hState EXCEPT ![h] =
                     AcceptAll(@, If("vonage" \in integrations, <<"streamAudio">>))]
  /\ UNCHANGED <<server, wsvars, regvars, activeSessions, hOps, zeroReached, routevars,
                 sinceActivity, sigvars, provider, events, inbox, encoded, raised,
                 pcmvars>>
  /\ lastReturned' = Returned

(* The second build with Twilio streams and browsers on one channel, and
   audioOutput events of one frame. *)
SidInit ==
  /\ InitGateway
  /\ server = "v2"
  /\ integrations \in SUBSET Providers

SidNext ==
  \/ \E ws \in WS, p \in {"twilio", "browser"} : Dial(ws, 1, p)
  \/ \E ws \in WS, ok \in BOOLEAN : JoinStep(ws, ok) /\ UNCHANGED auxvars
  \/ \E ws \in WS : HandleClose(ws) /\ UNCHANGED auxvars
  \/ \E ws \in WS, thrown \in BOOLEAN : Timeout(ws, thrown) /\ UNCHANGED auxvars
  \/ \E ws \in WS : TwilioStart(ws)
  \/ \E hasGlobal \in BOOLEAN : Emit(1, [kind |-> "audioOutput", frames |-> 1], hasGlobal)

SidSpec == SidInit /\ [][SidNext]_vars

(***************************************************************************)
(* Audio: framing of audioOutput, and the Twilio codec                     *)
(***************************************************************************)

(* the sizes of the content of an audioOutput event, in samples: half frames *)
Sizes == {k * (SAMPLES_PER_CHUNK \div 2) : k \in 1..(2 * MaxFrames)}

(* The audioOutput callback on the samples of one event, which are numbered
   on from those of the events before.  Its leftover buffer is a local of the
   callback in the first build (let audioBuffer = null at its start, so there
   is never anything to prepend) and does not exist in the second: the
   samples after the last whole chunk are not sent. *)
AudioOutput(length) ==
  LET newPcmSamples == [i \in 1..length |-> Len(pcmIn) + i]
      combinedSamples == newPcmSamples
      offset == (Len(combinedSamples) \div SAMPLES_PER_CHUNK) * SAMPLES_PER_CHUNK
  IN /\ Len(pcmIn) + length <= MaxEvents * MaxFrames * SAMPLES_PER_CHUNK
     /\ pcmIn' = pcmIn \o newPcmSamples
     /\ pcmOut' = pcmOut \o SubSeq(combinedSamples, 1, offset)
     /\ audioBuffer' = IF server = "v1"
                       THEN SubSeq(combinedSamples, offset + 1, Len(combinedSamples))
                       ELSE audioBuffer
     /\ UNCHANGED <<server, wsvars, regvars, engvars, zeroReached, lastReturned,
                    routevars, sinceActivity, sigvars, fanvars,
                    pcmSamples, resampledPcmSamples, payload, audioInput, codecPc>>

FramerNext == \E length \in Sizes : AudioOutput(length)

FramerSpec == Init /\ [][FramerNext]_vars

(* resample16kHzTo8kHz with Math.floor for Math.ceil *)
resample16kHzTo8kHz_Floor(s) == [i \in 1..(Len(s) \div 2) |-> s[2 * i - 1]]

(* result[i] = pcmSamples[i * 2] for i < outputLength, indices from 0; here
   from 1 *)
resample16kHzTo8kHz(s) == [i \in 1..outputLength(Len(s)) |-> s[2 * i - 1]]

(* G.711 mu-law of the alawmulaw package: one byte for each 16-bit sample and
   one 16-bit sample for each byte, the low bits lost; here the byte is the
   high byte of the sample *)
ByteRange == 256
mulawEncode(s) == [i \in 1..Len(s) |-> s[i] \div ByteRange]
mulawDecode(b) == [i \in 1..Len(b) |-> b[i] * ByteRange]

(* Buffer.toString("base64"): one group of four characters for every three
   bytes, the last group padded; a group is kept as the bytes it stands for *)
toBase64(b) ==
  [i \in 1..((Len(b) + 2) \div 3) |-> SubSeq(b, 3 * i - 2, Min(3 * i, Len(b)))]

(* Buffer.from(payload, "base64") *)
RECURSIVE fromBase64(_)
fromBase64(q) == IF q = << >> THEN << >> ELSE Head(q) \o fromBase64(Tail(q))

(* the sample sequences tried: every sequence of up to MaxSamples samples,
   and one canonical frame of distinct samples *)
Samples == {-300, 0, 7, 300}
Inputs ==
  UNION {[1..n -> Samples] : n \in 0..MaxSamples}
    \cup {[i \in 1..SAMPLES_PER_CHUNK |-> i]}

(* TwilioIntegration.tryProcessAudioOutput: resample, encode, base64 *)
TwilioOutput ==
  /\ codecPc = "pcm"
  /\ resampledPcmSamples' = resample16kHzTo8kHz(pcmSamples)
  /\ payload' = toBase64(mulawEncode(resampledPcmSamples'))
  /\ codecPc' = "media"
  /\ UNCHANGED <<server, wsvars, regvars, engvars, zeroReached, lastReturned,
                 routevars, sinceActivity, sigvars, fanvars,
                 pcmIn, pcmOut, audioBuffer, pcmSamples, audioInput>>

(* the media handler of TwilioIntegration: base64, decode, streamAudio *)
TwilioMedia ==
  /\ codecPc = "media"
  /\ audioInput' = mulawDecode(fromBase64(payload))
  /\ codecPc' = "streamed"
  /\ UNCHANGED <<server, wsvars, regvars, engvars, zeroReached, lastReturned,
                 routevars, sinceActivity, sigvars, fanvars,
                 pcmIn, pcmOut, audioBuffer, pcmSamples, resampledPcmSamples, payload>>

(* a frame goes out through the Twilio adapter and comes back in through it *)
CodecInit ==
  /\ InitState
  /\ server = "v2"
  /\ integrations = {"twilio"}
  /\ pcmSamples \in Inputs

CodecNext == TwilioOutput \/ TwilioMedia

CodecSpec == CodecInit /\ [][CodecNext]_vars

(***************************************************************************)
(* Properties                                                              *)
(***************************************************************************)

Live(h) == hState[h] \notin {"none", "Closed"}
Starting(h) == hState[h] \in {"Uninitiated", "PromptStarted", "SystemPromptSet"}
Registered(c) == Has(channelConversations, c) \/ Has(channelClients, c)
Closes(h) == hOps[h].close + hOps[h].closeSession
(* the connections that joined channel c and have not left it *)
Joined(c) == {w \in WS : joinPc[w] = "done" /\ wsChan[w] = c /\ readyState[w] # "CLOSED"}

(* C1: joiners of one new channel id create exactly one Conversation Handle:
   at no instant do two live handles exist for the same channel id, and all
   joiners whose join completed and who are still connected are in the one
   client set of the channel. *)
C1_OneHandlePerChannel ==
  /\ \A h1, h2 \in WS :
       (h1 # h2 /\ Live(h1) /\ Live(h2)) => wsChan[h1] # wsChan[h2]
  /\ \A w \in WS :
       (joinPc[w] = "done" /\ readyState[w] = "OPEN") => w \in Clients(wsChan[w])

(* C2: over the life of a registry entry the client count reaches 0 exactly
   once, so teardown and removal run once. *)
C2_ZeroReachedOnce == \A c \in ChannelIds : zeroReached[c] <= 1

(* C3: every Conversation Handle is closed at most once by the gateway
   (graceful session.close(), fallback close, reaper close). *)
C3_ClosedOnce == \A h \in WS : Closes(h) <= 1

(* C4: once the last client of a channel has disconnected and teardown is
   pending, the channel is eventually removed from the handle map and the
   client-set map, whatever the engine does. *)
C4_TeardownRemoves ==
  \A c \in ChannelIds :
    (\E ws \in WS : closePc[ws] = "race" /\ wsChan[ws] = c) ~> ~Registered(c)

(* C4 witness: the timer removed the channel although audio-end never
   completed and the fallback close threw (the session is still active). *)
C4_Witness ==
  \E ws \in WS :
    /\ closePc[ws] = "done" /\ grace[ws] = "audioEnd"
    /\ ~Registered(wsChan[ws])
    /\ Has(activeSessions, wsChan[ws]) /\ activeSessions[wsChan[ws]] = graceH[ws]

(* C5: while a connected client is attached to a channel, no step issues
   audio-end, prompt-end or close on the channel's handle or removes the
   channel from the registry. *)
C5_NoCancelWhileAttached ==
  [][\A c \in ChannelIds :
       (\E w \in Clients(c) : readyState[w] = "OPEN" /\ readyState'[w] = "OPEN")
       => /\ Has(channelConversations', c) /\ Has(channelClients', c)
          /\ Has(channelConversations, c) =>
               LET h == channelConversations[c] IN
               /\ hOps'[h].audioEnd = hOps[h].audioEnd
               /\ hOps'[h].promptEnd = hOps[h].promptEnd
               /\ hOps'[h].close = hOps[h].close]_vars

(* C6: a websocket whose close event has been handled is in no client set
   and has no client-to-channel entry. *)
C6_ClosedNotAttached ==
  \A w \in WS :
    (readyState[w] = "CLOSED" /\ closePc[w] = "done")
    => /\ ~Has(clientChannels, w)
       /\ \A c \in ChannelIds : w \notin Clients(c)

(* C7: handleClose run a second time for a connection, or run for a
   connection without channel entry, changes no registry and issues no
   operation on any handle. *)
C7_LeaveIdempotent ==
  [][\A ws \in WS :
       (HandleCloseAgain(ws) \/ (HandleClose(ws) /\ ~Has(clientChannels, ws)))
       => UNCHANGED <<regvars, engvars>>]_vars

(* C7 witness: handleClose has run twice for a connection whose first run
   tore the channel down. *)
C7_Witness ==
  /\ lastReturned.run = 2
  /\ grace[lastReturned.ws] # "none"
  /\ ~Registered(wsChan[lastReturned.ws])

(* C8: of the connected joiners of one channel only one was told
   isNewChannel=true, and the clientCount listed for a channel is the number
   of connections that joined it and have not left. *)
C8_NewOnceAndCount ==
  /\ \A w1, w2 \in WS :
       (w1 # w2 /\ ready[w1] = "new" /\ ready[w2] = "new"
        /\ readyState[w1] = "OPEN" /\ readyState[w2] = "OPEN")
       => wsChan[w1] # wsChan[w2]
  /\ \A c \in DOMAIN channelsListing :
       channelsListing[c].clientCount = Cardinality(Joined(c))

(* C9: a client is attached (and sent sessionReady) only when the start
   sequence of the channel's handle has completed and no earlier creation of
   the same channel id is still in flight. *)
C9_AttachedAfterStart ==
  \A w \in WS :
    (joinPc[w] = "done" /\ readyState[w] = "OPEN" /\ Has(channelConversations, wsChan[w]))
    => /\ ~Starting(channelConversations[wsChan[w]])
       /\ \A v \in WS : (v < w /\ wsChan[v] = wsChan[w]) => joinPc[v] \notin StartSteps

(* C10: after a sweep in which no close throws, every session found idle is
   closed without drain, its clients are disconnected and its channel id is
   absent from the registry. *)
C10_ReaperEvicts ==
  [][\A elapsed \in [DOMAIN activeSessions -> Elapsed] :
       Sweep(elapsed, {})
       => \A c \in Idle(elapsed) :
            /\ hState'[activeSessions[c]] = "Closed"
            /\ hOps'[activeSessions[c]].audioEnd = hOps[activeSessions[c]].audioEnd
            /\ \A w \in Clients(c) : readyState'[w] # "OPEN"
            /\ ~Has(channelConversations', c) /\ ~Has(channelClients', c)]_vars

(* C11: idle eviction depends only on the activity time.  A sweep closes
   every session whose last activity is more than 5 minutes back (and whose
   close does not throw), whether or not clients are attached to the channel,
   and leaves alone every session whose last activity is at most 5 minutes
   back. *)
C11_EvictionByActivityTime ==
  [][\A thrown \in SUBSET ChannelIds :
       TimedSweep(thrown)
       => \A c \in DOMAIN activeSessions :
            LET h == activeSessions[c] IN
            /\ (sinceActivity[c] > fiveMinsInMs /\ c \notin thrown)
                 => hState'[h] = "Closed" /\ ~Has(activeSessions', c)
            /\ sinceActivity[c] <= fiveMinsInMs
                 => /\ Has(activeSessions', c) /\ activeSessions'[c] = h
                    /\ hState'[h] = hState[h] /\ hOps'[h] = hOps[h]]_vars

(* C11 witness: the reaper has closed the handle of a channel that still has
   an open client attached, while another channel with an open client, whose
   last activity is exactly 5 minutes back, is still live. *)
C11_Witness ==
  \E c1, c2 \in ChannelIds :
    /\ c1 # c2
    /\ Has(channelConversations, c1) /\ Has(channelConversations, c2)
    /\ hOps[channelConversations[c1]].closeSession = 1
    /\ hState[channelConversations[c1]] = "Closed"
    /\ \E w \in Clients(c1) : readyState[w] = "OPEN"
    /\ \E w \in Clients(c2) : readyState[w] = "OPEN"
    /\ Has(activeSessions, c2) /\ activeSessions[c2] = channelConversations[c2]
    /\ sinceActivity[c2] = fiveMinsInMs

(* the closes the drain has asked for have all settled without a failure *)
DrainClean == \A c \in DOMAIN sessionPromises : sessionPromises[c] = "fulfilled"
(* ... or with every failure made good by the forced close of the first build *)
DrainSettled ==
  \A c \in DOMAIN sessionPromises :
    \/ sessionPromises[c] = "fulfilled"
    \/ sessionPromises[c] = "recovered" /\ server = "v1"

(* C12 as claimed: after SIGINT the process eventually exits; it exits with
   status 0 only if every close settled and both servers stopped, and with a
   non-zero status if the deadline elapsed first or any step of the drain
   failed. *)
C12_ExitStatus ==
  /\ (proc # "up") ~> Exited
  /\ [](proc = "exit0" => DrainClean /\ Sockets = {})
  /\ [][proc' = "exit0" => proc \in {"stopping", "exit0"}]_vars

(* C12 as amended: after SIGINT the process eventually exits; it exits with
   status 0 only from the awaited close of both servers, with every connection
   ended and every close of the drain settled, where in the first build a
   rejected close followed by its forced close counts as settled; a close left
   rejected ends the process with status 1, as does the deadline; an exited
   process stays as it is. *)
C12_ExitStatusAmended ==
  /\ (proc # "up") ~> Exited
  /\ [](proc = "exit0" => DrainSettled /\ Sockets = {})
  /\ []((\E c \in DOMAIN sessionPromises : sessionPromises[c] = "rejected") => proc = "exit1")
  /\ [][proc' = "exit0" => proc \in {"stopping", "exit0"}]_vars
  /\ [][Exited => UNCHANGED vars]_vars

(* C12 witness: the process has exited with status 0 after a drain that closed
   the session of a channel and the connection of its client. *)
C12_Witness ==
  /\ proc = "exit0"
  /\ \E c \in DOMAIN sessionPromises :
       /\ sessionPromises[c] = "fulfilled"
       /\ \E w \in WS : wsChan[w] = c /\ readyState[w] = "CLOSED" /\ joinPc[w] = "done"

(* C13: on the signal a close is requested for every channel of the registry
   and every open client in its client set is closed; the servers stop
   accepting only when every requested close has settled; and no channel in
   the registry when the servers have stopped accepting is without a close
   request. *)
C13_DrainCoversRegistry ==
  /\ [][Sigint => \A c \in DOMAIN channelConversations :
                    /\ Has(sessionPromises', c)
                    /\ \A w \in Clients(c) : readyState'[w] # "OPEN"]_vars
  /\ [](proc \in {"stopping", "exit0"}
          => \A c \in DOMAIN sessionPromises : sessionPromises[c] # "pending")
  /\ [][(proc # "stopping" /\ proc' = "stopping")
         => \A c \in DOMAIN channelConversations' : Has(sessionPromises', c)]_vars

(* the engine has emitted an event for channel c in this step *)
Emitted(c) == Len(events'[c]) = Len(events[c]) + 1
LastEvent(c) == events'[c][Len(events'[c])]
(* what connection w has been sent in this step *)
New(w) == SubSeq(inbox'[w], Len(inbox[w]) + 1, Len(inbox'[w]))
(* the attached clients of channel c whose connection is open *)
OpenClients(c) == {w \in Clients(c) : readyState[w] = "OPEN"}

(* C14: an engine event of a channel is delivered to every attached client
   whose connection is open, whatever the state of the other attached
   clients, and the callback does not throw: every open client of the set is
   sent a message of the event (exactly one for a structured event or
   streamComplete), and the other connections are sent nothing. *)
C14_BroadcastToOpen ==
  [][\A c \in ChannelIds :
       Emitted(c) =>
         /\ ~raised'
         /\ \A w \in WS :
              IF w \in OpenClients(c)
              THEN /\ New(w) # << >>
                   /\ \A i \in 1..Len(New(w)) : New(w)[i].ev = Len(events'[c])
                   /\ LastEvent(c).kind # "audioOutput"
                        => New(w) = << Msg(Len(events'[c]), LastEvent(c).kind, 0) >>
              ELSE New(w) = << >>]_vars

(* C14 witness: in the second build a closed connection sits in the client
   set of a channel since the set was created, and an open client of the same
   set has been sent an event. *)
C14_Witness ==
  /\ server = "v2"
  /\ \E w1 \in Clients(1), w2 \in Clients(1) :
       /\ readyState[w1] = "CLOSED" /\ inbox[w1] = << >>
       /\ readyState[w2] = "OPEN" /\ inbox[w2] # << >>

(* C15: every connection is sent the events of its channel in the order the
   engine emitted them: no message of a later event precedes a message of an
   earlier one, and every message belongs to an emitted event of that kind. *)
C15_EmissionOrder ==
  \A w \in WS :
    /\ \A i \in 1..Len(inbox[w]), j \in 1..Len(inbox[w]) :
         i < j => inbox[w][i].ev <= inbox[w][j].ev
    /\ \A i \in 1..Len(inbox[w]) :
         /\ inbox[w][i].ev \in 1..Len(events[wsChan[w]])
         /\ events[wsChan[w]][inbox[w][i].ev].kind # "audioOutput"
              => inbox[w][i].fmt = events[wsChan[w]][inbox[w][i].ev].kind

(* C15 witness: an attached open client has been sent two events, one of them
   an audioOutput delivered as several messages. *)
C15_Witness ==
  \E w \in WS :
    /\ readyState[w] = "OPEN" /\ w \in Clients(wsChan[w])
    /\ \E i \in 1..Len(inbox[w]) : inbox[w][i].ev = 1
    /\ \E i \in 1..Len(inbox[w]) : inbox[w][i].ev = 2
    /\ Len(inbox[w]) > 3

(* C16: with Twilio switched on and one Twilio client attached to a channel,
   an audioOutput event of k whole frames makes the client receive exactly k
   media messages, each of 160 mulaw samples. *)
C16_TwilioFrames ==
  [][\A c \in ChannelIds, w \in WS :
       (/\ Emitted(c) /\ LastEvent(c).kind = "audioOutput"
        /\ server = "v2" /\ "twilio" \in integrations
        /\ Clients(c) = {w} /\ readyState[w] = "OPEN" /\ provider[w] = "twilio")
       => LET media == SelectSeq(New(w), LAMBDA m : m.fmt = "media") IN
          /\ Len(media) = LastEvent(c).frames
          /\ \A i \in 1..Len(media) : media[i].samples = SAMPLES_PER_CHUNK \div 2]_vars

(* C17: on an audioOutput event every attached open client is sent the audio
   in the wire format of its own adapter only, and the output paths that run
   are those of the adapters that have a client on the channel. *)
C17_OwnFormatOnly ==
  [][\A c \in ChannelIds :
       (Emitted(c) /\ LastEvent(c).kind = "audioOutput")
       => /\ \A w \in OpenClients(c) :
               \A i \in 1..Len(New(w)) : New(w)[i].fmt = WireFormat(provider[w])
          /\ encoded' = {provider[w] : w \in OpenClients(c)}]_vars

(* messages that carry audio: the browser envelope, Twilio media, raw PCM *)
AudioMsgs == {"audioInput", "twilioMedia", "garbage"}
Window == {"AudioStarted", "Streaming"}

(* C18: audio reaches the engine's stream-audio only in AudioStarted or
   Streaming: a handle is Streaming after a step only if it was in that window
   before it, and an audio message handled while the handle of the channel is
   outside the window leaves the engine as it was. *)
C18_AudioOnlyInWindow ==
  [][/\ \A h \in WS : hState'[h] = "Streaming" => hState[h] \in Window
     /\ \A ws \in WS, m \in AudioMsgs, ok \in BOOLEAN :
          (/\ Resolved(ws)
           /\ hState[channelConversations[clientChannels[ws]]] \notin Window
           /\ Message(ws, m, ok))
          => UNCHANGED engvars]_vars

(* C18 witness: audio was forwarded on a channel whose stop-audio then ended
   the window, with the client still attached and able to send. *)
C18_Witness ==
  \E ws \in WS :
    /\ Resolved(ws) /\ readyState[ws] = "OPEN" /\ errors[ws] < MaxErrors
    /\ hState[channelConversations[clientChannels[ws]]] = "AudioEnded"
    /\ \E h \in WS : hState[h] = "Streaming"

(* C19: a message that is no JSON, or JSON with no known type or event, is
   dropped: the connection stays as it is, no registry entry changes and no
   operation is invoked on the handle. *)
C19_MalformedDropped ==
  [][\A ws \in WS, m \in {"garbage", "unknown"}, ok \in BOOLEAN :
       Message(ws, m, ok)
       => /\ readyState'[ws] = readyState[ws]
          /\ UNCHANGED regvars
          /\ Resolved(ws) => Invoked(m, ok) = <<>>]_vars

(* C20: a message from an open connection with no channel, or whose channel
   has no handle in the registry, sends exactly one error event to that
   connection and changes nothing else: no connection closes, no registry
   entry and nothing in the engine changes. *)
C20_UnroutedOneError ==
  [][\A ws \in WS, m \in Msgs, ok \in BOOLEAN :
       (readyState[ws] = "OPEN" /\ ~Resolved(ws) /\ Message(ws, m, ok))
       => /\ errors' = [errors EXCEPT ![ws] = @ + 1]
          /\ UNCHANGED <<readyState, regvars, engvars, msgPc>>]_vars

(* C20 witness: an attached open connection whose channel was torn down under
   it has been sent an error event for a message (no other step of this
   deployment sends one to an open connection). *)
C20_Witness ==
  \E ws \in WS :
    /\ server = "v2" /\ "twilio" \notin integrations
    /\ readyState[ws] = "OPEN" /\ errors[ws] = 1
    /\ Has(clientChannels, ws) /\ ~Has(channelConversations, clientChannels[ws])

(* the stream-audio calls among the operations ops *)
StreamCalls(ops) == Len(SelectSeq(ops, LAMBDA o : o = "streamAudio"))

(* C23: stop-audio is atomic on the channel: while the stopAudio handler of a
   connection is between its audio-end and its prompt-end, no message of any
   attached client has an operation invoked on the same handle. *)
C23_StopAudioAtomic ==
  [][\A ws \in WS, w2 \in WS, m \in Msgs, ok \in BOOLEAN :
       (/\ msgPc[w2].pc = "endPrompt"
        /\ Resolved(ws)
        /\ channelConversations[clientChannels[ws]] = msgPc[w2].h
        /\ Message(ws, m, ok))
       => Invoked(m, ok) = << >>]_vars

(* C25: the inbound method of an adapter returns normally for every input: a
   message that is no JSON, or JSON without the expected fields, never ends
   handleMessage in its catch block, so no error event is sent for it. *)
C25_AdaptersNeverThrow ==
  [][\A ws \in WS, m \in {"garbage", "unknown"}, ok \in BOOLEAN :
       (server = "v2" /\ Resolved(ws) /\ Message(ws, m, ok))
       => UNCHANGED errors /\ ~Caught(m, ok)]_vars

(* C30: a message causes at most one stream-audio call on the handle, and a
   control message causes none, whichever adapters are switched on and
   whether or not the control operation succeeds. *)
C30_OneStreamPerMessage ==
  [][\A ws \in WS, m \in Msgs, ok \in BOOLEAN :
       (Resolved(ws) /\ Message(ws, m, ok))
       => /\ StreamCalls(Invoked(m, ok)) <= 1
          /\ m \in Control => StreamCalls(Invoked(m, ok)) = 0]_vars

(* C27: the handle map and the client-set map have the same key set. *)
C27_SameKeys == DOMAIN channelConversations = DOMAIN channelClients

(* C27 witness: after the signal, one channel has been torn down by its last
   client and another is registered with a client attached. *)
C27_Witness ==
  /\ proc # "up"
  /\ \E c1 \in ChannelIds, c2 \in ChannelIds :
       /\ zeroReached[c1] >= 1 /\ ~Registered(c1)
       /\ Registered(c2) /\ Clients(c2) # {}

(* C28: the client-to-channel map agrees with the registry: a connection
   mapped to a channel, and not in its own handleClose, has that channel in
   the handle map and is a member of its client set; and every member of a
   client set is mapped to that channel. *)
C28_MapsAgree ==
  /\ \A ws \in DOMAIN clientChannels :
       closePc[ws] = "idle"
         => /\ Has(channelConversations, clientChannels[ws])
            /\ ws \in Clients(clientChannels[ws])
  /\ \A c \in DOMAIN channelClients : \A ws \in channelClients[c] :
       Has(clientChannels, ws) /\ clientChannels[ws] = c

(* C29: a join whose channel creation failed has sent the joiner at most one
   error event and closed its connection, and has left no entry of the
   channel behind: no handle in the registry is one whose start sequence
   failed. *)
C29_FailedCreationLeavesNothing ==
  /\ \A ws \in WS : joinPc[ws] = "failed" => readyState[ws] # "OPEN" /\ errors[ws] <= 1
  /\ \A c \in DOMAIN channelConversations : joinPc[channelConversations[c]] # "failed"

(* C24: one sweep of the reaper is not stalled by one channel: every session
   the sweep finds idle has its close issued, and is closed unless its own
   close throws, whatever the closes of the other sessions of the sweep do. *)
C24_SweepNotStalled ==
  [][\A elapsed \in [DOMAIN activeSessions -> Elapsed], thrown \in SUBSET ChannelIds :
       Sweep(elapsed, thrown)
       => \A id \in Idle(elapsed) \ thrown :
            /\ ~Has(activeSessions', id)
            /\ hOps'[activeSessions[id]].closeSession
                 = hOps[activeSessions[id]].closeSession + 1]_vars

(* C24 witness: of two sessions the reaper has closed one, whose client is
   still attached, while the other is still active. *)
C24_Witness ==
  \E c1 \in ChannelIds, c2 \in ChannelIds, w \in WS :
    /\ isSessionActive(c1)
    /\ ~isSessionActive(c2)
    /\ Has(channelConversations, c2) /\ channelConversations[c2] = w
    /\ w \in Clients(c2) /\ closePc[w] = "idle"
    /\ hState[w] = "Closed" /\ hOps[w].closeSession = 1

(* C26: every Twilio media message carries the stream SID negotiated by the
   start event of the client it is sent to: on an audioOutput event every
   media message sent to an open Twilio client of the channel has the SID of
   that client's stream, never an undefined one. *)
C26_MediaCarriesOwnSid ==
  [][\A c \in ChannelIds :
       (Emitted(c) /\ LastEvent(c).kind = "audioOutput")
       => \A w \in OpenClients(c) :
            provider[w] = "twilio"
              => \A i \in 1..Len(New(w)) :
                   New(w)[i].fmt = "media" => New(w)[i].sid = w]_vars

(* C21: the frames sent are, sample for sample and in order, the longest
   prefix of the event samples whose length is a multiple of 320: nothing is
   dropped or duplicated and fewer than 320 samples are pending. *)
C21_FramerCarriesLeftover ==
  /\ pcmOut = SubSeq(pcmIn, 1, (Len(pcmIn) \div SAMPLES_PER_CHUNK) * SAMPLES_PER_CHUNK)
  /\ Len(pcmIn) - Len(pcmOut) < SAMPLES_PER_CHUNK

(* C22: resample16kHzTo8kHz of n samples gives ceil(n/2) samples, every other
   one starting with the first; sent as mulaw and decoded again they are as
   many, 160 for a frame of 320. *)
C22_ResampleEveryOther ==
  /\ codecPc # "pcm" =>
       /\ Len(resampledPcmSamples) = (Len(pcmSamples) + 1) \div 2
       /\ \A i \in 1..Len(resampledPcmSamples) :
            resampledPcmSamples[i] = pcmSamples[2 * i - 1]
  /\ codecPc = "streamed" =>
       /\ Len(audioInput) = Len(resampledPcmSamples)
       /\ Len(pcmSamples) = SAMPLES_PER_CHUNK
            => Len(audioInput) = SAMPLES_PER_CHUNK \div 2

(* C22 witness: a frame of 320 distinct samples has gone out through the
   Twilio adapter and come back as 160 samples. *)
C22_Witness ==
  /\ codecPc = "streamed"
  /\ Len(pcmSamples) = SAMPLES_PER_CHUNK
  /\ Len(payload) * 3 >= Len(resampledPcmSamples)
  /\ Len(audioInput) = SAMPLES_PER_CHUNK \div 2

====
